---- MODULE Spec2Model ----
(***************************************************************************)
(* The chat widget ChatInterface of the landing page, in its two versions: *)
(* the voice-enabled one (src/unnamed/part_000) and the plain one          *)
(* (src/components/landing-page.tsx).  The state is the component's React  *)
(* state and refs, the remote calls that are in flight, and the state of   *)
(* the browser's speech recognition and speech synthesis objects the       *)
(* component drives.  Every action is one event handler or one             *)
(* continuation of the event loop, run to completion.                      *)
(*                                                                         *)
(* A text is a sequence of characters; the fixed texts of the program are  *)
(* one-element sequences holding the whole literal.                        *)
(***************************************************************************)
EXTENDS Integers, Sequences, FiniteSets, TLC

VARIABLES
  widget,         \* which version of ChatInterface is mounted
  messages,       \* useState messages: the transcript
  input,          \* useState input: the pending input field
  isTyping,       \* useState isTyping: awaiting_response
  isListening,    \* useState isListening
  isSpeaking,     \* useState isSpeaking
  recognitionRef, \* recognitionRef.current: 0 (null) or a session of sessions
  sessions,       \* the SpeechRecognition objects created so far
  synthQueue,     \* window.speechSynthesis: utterances playing (head) or pending
  staleEnds,      \* cancelled utterances whose end event is still to be delivered
  calls,          \* the runChat promises: prompt, status and, once resolved, value
  sent,           \* the requests handed to the remote endpoint, in order
  submitCount,    \* number of handleSubmit invocations so far
  replayCount     \* number of clicks on the speaker button so far

vars == <<widget, messages, input, isTyping, isListening, isSpeaking,
          recognitionRef, sessions, synthQueue, staleEnds, calls, sent,
          submitCount, replayCount>>

chatVars == <<messages, isTyping, calls, sent>>
voiceVars == <<isListening, isSpeaking, recognitionRef, sessions, synthQueue, staleEnds>>

----------------------------------------------------------------------------
(* Bounds of the model *)

MaxSubmits == 2
MaxSessions == 2
MaxResults == 1
MaxReplays == 1

----------------------------------------------------------------------------
(* Texts *)

Whitespace == {" "}

FIXED_PROMPT == <<"You are a supportive and empathetic AI assistant ...">>

GreetingOf(w) ==
  IF w = "voice"
  THEN <<"Hello! I'm Serenity, your AI companion. How can I support you today?">>
  ELSE <<"Hello! I'm GeminiMind, your AI companion. How can I support you today?">>

FallbackText == <<"I'm sorry, I encountered an error. Please try again.">>

\* what the user can put into the input field by typing
Typed == { <<>>, <<" ">>, <<"a">>, <<" ", "a">> }

\* the transcripts of single recognition results
Heard == { <<"a">>, <<"a", "b">> }

\* the texts the remote endpoint answers with
Responses == { <<"r1">> }

\* the ways the remote call fails
ErrorKinds == { "network", "malformed" }

----------------------------------------------------------------------------
(* String.prototype.trim *)

RECURSIVE TrimStart(_)
TrimStart(s) ==
  IF s = <<>> THEN <<>>
  ELSE IF Head(s) \in Whitespace THEN TrimStart(Tail(s)) ELSE s

RECURSIVE TrimEnd(_)
TrimEnd(s) ==
  IF s = <<>> THEN <<>>
  ELSE IF s[Len(s)] \in Whitespace THEN TrimEnd(SubSeq(s, 1, Len(s) - 1)) ELSE s

NoTrim(s) == s

trim(s) == TrimEnd(TrimStart(s))

----------------------------------------------------------------------------
(* The pieces of handleSubmit and runChat *)

UserTurn(text) == [role |-> "user", content |-> text]
AssistantTurn(text) == [role |-> "assistant", content |-> text]

\* a mutant of appendMessage: the Turn is not added
DropMessage(prev, m) == prev

\* a mutant of appendMessage: the new Turn goes to the front
PrependMessage(prev, m) == <<m>> \o prev

\* a mutant of appendMessage: the new Turn replaces the last one
ReplaceLastMessage(prev, m) == Append(SubSeq(prev, 1, Len(prev) - 1), m)

\* a mutant of appendMessage: the new Turn is put before the last one
InsertBeforeLast(prev, m) ==
  IF prev = <<>>
  THEN <<m>>
  ELSE SubSeq(prev, 1, Len(prev) - 1) \o <<m, prev[Len(prev)]>>

\* setMessages(prev => [...prev, m])
appendMessage(prev, m) == Append(prev, m)

\* a mutant of runChat: the running transcript is sent as prior context
runChatWithTranscript(prompt) ==
  [history |-> <<[role |-> "user", text |-> FIXED_PROMPT]>>
                 \o [i \in 1..Len(messages) |->
                       [role |-> messages[i].role, text |-> messages[i].content]],
   message |-> prompt]

\* a mutant of runChat: the prompt is trimmed before it is sent
runChatTrimmed(prompt) ==
  [history |-> <<[role |-> "user", text |-> FIXED_PROMPT]>>,
   message |-> trim(prompt)]

\* runChat(prompt): the request chat.sendMessage(prompt) issues on a chat that
\* startChat created with the one-entry history
runChat(prompt) ==
  [history |-> <<[role |-> "user", text |-> FIXED_PROMPT]>>,
   message |-> prompt]

\* a mutant of errorContent: the error kind shows in the Turn
ErrorContentByKind(kind) == <<kind>>

\* the content of errorMessage in the catch block
errorContent(kind) == FallbackText

\* a mutant of typingAfterFailure: the flag is not released when the call fails
TypingKept == isTyping

\* finally { setIsTyping(false) }, reached from the catch block
typingAfterFailure == FALSE

\* a mutant of submitDisabled: the button is never disabled
SubmitNeverDisabled == FALSE

\* <Button type="submit" disabled={isTyping}>
submitDisabled == isTyping

\* a mutant of submitAccepted: a submit is refused while a call is in flight
AcceptedWhenIdle(text) == trim(text) # <<>> /\ ~isTyping

\* a mutant of submitAccepted: a submit is refused while the microphone is on
AcceptedWhenNotListening(text) == trim(text) # <<>> /\ ~isListening

\* if (!input.trim()) return: the one test handleSubmit makes
submitAccepted(text) == trim(text) # <<>>

InFlight == { c \in 1..Len(calls) : calls[c].status = "pending" }

----------------------------------------------------------------------------
(* The pieces of the voice handlers *)

RECURSIVE Join(_)
Join(ts) == IF ts = <<>> THEN <<>> ELSE Head(ts) \o Join(Tail(ts))

\* Array.from(event.results).map(result => result[0].transcript).join('')
Transcript(results) == Join([i \in 1..Len(results) |-> results[i].transcript])

\* a mutant of inputAfterResult: the transcript is appended to the field
InputAppended(prev, transcript) == prev \o transcript

\* setInput(transcript) in onresult
inputAfterResult(prev, transcript) == transcript

\* a SpeechRecognition object after its end: it delivers no more events, and
\* nothing reads its results
Ended == [state |-> "ended", results |-> <<>>]

\* a mutant of StopCurrent: the capture is left running
StopNothing(ss, ref) == ss

\* recognitionRef.current.stop() in stopListening: the capture of the session the
\* ref holds is stopped (a session that ended stays ended)
StopCurrent(ss, ref) ==
  IF ref # 0 /\ ss[ref].state = "started"
  THEN [ss EXCEPT ![ref].state = "stopped"]
  ELSE ss

----------------------------------------------------------------------------
Init ==
  /\ widget \in {"voice", "plain"}
  /\ messages = <<AssistantTurn(GreetingOf(widget))>>
  /\ input = <<>>
  /\ isTyping = FALSE
  /\ isListening = FALSE
  /\ isSpeaking = FALSE
  /\ recognitionRef = 0
  /\ sessions = <<>>
  /\ synthQueue = <<>>
  /\ staleEnds = 0
  /\ calls = <<>>
  /\ sent = <<>>
  /\ submitCount = 0
  /\ replayCount = 0

----------------------------------------------------------------------------
(* The conversation session *)

\* a mutant of OnChange: typing also clears the waiting flag
OnChangeClearsTyping ==
  /\ \E v \in Typed : input' = v
  /\ isTyping' = FALSE
  /\ UNCHANGED <<widget, messages, calls, sent, voiceVars, submitCount,
                 replayCount>>

\* onChange={(e) => setInput(e.target.value)}
OnChange ==
  /\ \E v \in Typed : input' = v
  /\ UNCHANGED <<widget, chatVars, voiceVars, submitCount, replayCount>>

\* handleSubmit up to the await of runChat(input)
HandleSubmit ==
  /\ submitCount < MaxSubmits
  /\ submitCount' = submitCount + 1
  /\ IF ~submitAccepted(input)
     THEN UNCHANGED <<messages, input, isTyping, calls, sent>>
     ELSE /\ messages' = appendMessage(messages, UserTurn(input))
          /\ input' = <<>>
          /\ isTyping' = TRUE
          /\ sent' = Append(sent, runChat(input))
          /\ calls' = Append(calls,
               [prompt |-> input, status |-> "pending", value |-> <<>>])
  /\ UNCHANGED <<widget, voiceVars, replayCount>>

\* the form's submit event while the submit button is enabled
FormSubmit ==
  /\ ~submitDisabled
  /\ HandleSubmit

\* a mutant of SpeakResponse: nothing is handed to the synthesis
SpeakNothing(text) == UNCHANGED <<isSpeaking, synthQueue>>

\* speakResponse(text); synthRef.current is set by the effect that runs after
\* the first render
SpeakResponse(text) ==
  /\ isSpeaking' = TRUE
  /\ synthQueue' = Append(synthQueue, text)

\* runChat returns: the try block after the await, then finally
RunChatResolve ==
  \E c \in InFlight, text \in Responses :
    /\ messages' = appendMessage(messages, AssistantTurn(text))
    /\ IF widget = "voice"
       THEN SpeakResponse(text)
       ELSE UNCHANGED <<isSpeaking, synthQueue>>
    /\ isTyping' = FALSE
    /\ calls' = [calls EXCEPT ![c].status = "resolved", ![c].value = text]
    /\ UNCHANGED <<widget, input, isListening, recognitionRef, sessions,
                   staleEnds, sent, submitCount, replayCount>>

\* runChat throws: the catch block, then finally
RunChatReject ==
  \E c \in InFlight, kind \in ErrorKinds :
    /\ messages' = appendMessage(messages, AssistantTurn(errorContent(kind)))
    /\ isTyping' = typingAfterFailure
    /\ calls' = [calls EXCEPT ![c].status = "rejected"]
    /\ UNCHANGED <<widget, input, voiceVars, sent, submitCount, replayCount>>

----------------------------------------------------------------------------
(* The voice bridge *)

\* toggleVoiceInput with isListening false: startListening
StartListening ==
  /\ widget = "voice"
  /\ ~isListening
  /\ Len(sessions) < MaxSessions
  /\ isListening' = TRUE
  /\ sessions' = Append(sessions, [state |-> "started", results |-> <<>>])
  /\ recognitionRef' = Len(sessions) + 1
  /\ UNCHANGED <<widget, messages, input, isTyping, isSpeaking, synthQueue,
                 staleEnds, calls, sent, submitCount, replayCount>>

\* toggleVoiceInput with isListening true: stopListening
StopListening ==
  /\ widget = "voice"
  /\ isListening
  /\ isListening' = FALSE
  /\ sessions' = StopCurrent(sessions, recognitionRef)
  /\ UNCHANGED <<widget, messages, input, isTyping, isSpeaking, recognitionRef,
                 synthQueue, staleEnds, calls, sent, submitCount, replayCount>>

\* what the next result event of a session may hold: a new result, interim
\* or final, after a final one; the interim result replaced by a later
\* hypothesis or by the final one
NextResults(rs) ==
  IF rs = <<>> \/ rs[Len(rs)].isFinal
  THEN { Append(rs, [transcript |-> t, isFinal |-> f]) : t \in Heard, f \in BOOLEAN }
  ELSE { [rs EXCEPT ![Len(rs)] = [transcript |-> t, isFinal |-> f]] :
           t \in Heard, f \in BOOLEAN } \ {rs}

\* the result event of a session; after stop() the recogniser may still
\* return a result from the audio it has
RecognitionResult ==
  \E s \in 1..Len(sessions) :
    /\ sessions[s].state \in {"started", "stopped"}
    /\ \E rs \in NextResults(sessions[s].results) :
         /\ Len(rs) <= MaxResults
         /\ sessions' = [sessions EXCEPT ![s].results = rs]
         /\ input' = inputAfterResult(input, Transcript(rs))
    /\ UNCHANGED <<widget, messages, isTyping, isListening, isSpeaking,
                   recognitionRef, synthQueue, staleEnds, calls, sent,
                   submitCount, replayCount>>

\* the error event of a session: onerror calls stopListening, which acts on
\* the session recognitionRef holds; the session that failed ends
RecognitionErrorOf(s) ==
  /\ sessions[s].state \in {"started", "stopped"}
  /\ isListening' = FALSE
  /\ sessions' = StopCurrent([sessions EXCEPT ![s] = Ended], recognitionRef)
  /\ UNCHANGED <<widget, messages, input, isTyping, isSpeaking, recognitionRef,
                 synthQueue, staleEnds, calls, sent, submitCount, replayCount>>

RecognitionError == \E s \in 1..Len(sessions) : RecognitionErrorOf(s)

\* the end event of a session (capture over); no onend handler is installed
RecognitionEnd ==
  \E s \in 1..Len(sessions) :
    /\ sessions[s].state \in {"started", "stopped"}
    /\ sessions' = [sessions EXCEPT ![s] = Ended]
    /\ UNCHANGED <<widget, messages, input, isTyping, isListening, isSpeaking,
                   recognitionRef, synthQueue, staleEnds, calls, sent,
                   submitCount, replayCount>>

\* a mutant of StopSpeaking: the flag is cleared but playback is not cancelled
StopSpeakingFlagOnly ==
  /\ isSpeaking' = FALSE
  /\ UNCHANGED <<synthQueue, staleEnds>>

\* stopSpeaking: cancel() empties the queue; whether the utterance that was
\* playing still gets its end event is up to the platform
StopSpeaking ==
  /\ isSpeaking' = FALSE
  /\ synthQueue' = <<>>
  /\ staleEnds' \in IF synthQueue = <<>>
                    THEN {staleEnds}
                    ELSE {staleEnds, staleEnds + 1}

\* the speaker button: onClick={isSpeaking ? stopSpeaking : () =>
\* speakResponse(messages[messages.length - 1].content)}
SpeakerClick ==
  /\ widget = "voice"
  /\ replayCount < MaxReplays
  /\ replayCount' = replayCount + 1
  /\ IF isSpeaking
     THEN StopSpeaking
     ELSE /\ SpeakResponse(messages[Len(messages)].content)
          /\ UNCHANGED staleEnds
  /\ UNCHANGED <<widget, messages, input, isTyping, isListening, recognitionRef,
                 sessions, calls, sent, submitCount>>

\* a mutant of speakingAfterEnd: the end event does not clear the flag
SpeakingKept == isSpeaking

\* utterance.onend = () => setIsSpeaking(false)
speakingAfterEnd == FALSE

\* the end event of the utterance that is playing: utterance.onend
UtteranceEnd ==
  /\ synthQueue # <<>>
  /\ synthQueue' = Tail(synthQueue)
  /\ isSpeaking' = speakingAfterEnd
  /\ UNCHANGED <<widget, messages, input, isTyping, isListening, recognitionRef,
                 sessions, staleEnds, calls, sent, submitCount, replayCount>>

\* the end event of an utterance that cancel() interrupted: utterance.onend
StaleUtteranceEnd ==
  /\ staleEnds > 0
  /\ staleEnds' = staleEnds - 1
  /\ isSpeaking' = speakingAfterEnd
  /\ UNCHANGED <<widget, messages, input, isTyping, isListening, recognitionRef,
                 sessions, synthQueue, calls, sent, submitCount, replayCount>>

----------------------------------------------------------------------------
Others ==
  \/ OnChange
  \/ RunChatResolve
  \/ RunChatReject
  \/ StartListening
  \/ StopListening
  \/ RecognitionResult
  \/ RecognitionError
  \/ RecognitionEnd
  \/ SpeakerClick
  \/ UtteranceEnd
  \/ StaleUtteranceEnd

\* handleSubmit called by any caller
Next == HandleSubmit \/ Others

\* handleSubmit reached through the form only
NextForm == FormSubmit \/ Others

Spec == Init /\ [][Next]_vars

SpecForm == Init /\ [][NextForm]_vars

\* the remote call eventually completes or errors
LiveSpec == Init /\ [][Next]_vars /\ WF_vars(RunChatResolve \/ RunChatReject)

\* the platform eventually fires the end event of the utterance that is playing
LiveSpeakSpec == Init /\ [][Next]_vars /\ WF_vars(UtteranceEnd)

----------------------------------------------------------------------------
(* Vocabulary of the properties *)

IsPrefix(s, t) == Len(s) <= Len(t) /\ SubSeq(t, 1, Len(s)) = s

IsBlank(s) == \A i \in 1..Len(s) : s[i] \in Whitespace

Settled == { c \in 1..Len(calls) : calls[c].status # "pending" }

\* a step in which handleSubmit ran, accepted or not
SubmitCall == submitCount' = submitCount + 1

\* a step in which a submit was accepted
SubmitStep == Len(calls') = Len(calls) + 1

\* a step in which the remote call c completed
ResolveStep(c) == calls[c].status = "pending" /\ calls'[c].status = "resolved"

\* a step in which the remote call c failed
RejectStep(c) == calls[c].status = "pending" /\ calls'[c].status = "rejected"

\* a step in which session s delivered a result event
ResultStep(s) ==
  /\ sessions'[s].state = sessions[s].state
  /\ sessions'[s].results # sessions[s].results

----------------------------------------------------------------------------
(* C1 *)

\* what an accepted submit and its completion do to the transcript
C1_Turns ==
  /\ SubmitStep =>
       /\ ~IsBlank(input)
       /\ messages' = Append(messages, UserTurn(input))
  /\ \A c \in 1..Len(calls) :
       /\ ResolveStep(c) =>
            /\ messages' = Append(messages, AssistantTurn(calls'[c].value))
            /\ calls'[c].value \in Responses
            /\ ~isTyping'
       /\ RejectStep(c) =>
            /\ messages' = Append(messages, AssistantTurn(FallbackText))
            /\ ~isTyping'
  /\ (~SubmitStep /\ Settled' = Settled) => messages' = messages
  /\ (SubmitCall /\ ~IsBlank(input)) => SubmitStep
  /\ Len(messages') = 1 + Len(calls') + Cardinality(Settled')

\* C1 as claimed: every accepted submit appends exactly one user Turn, its
\* completion appends exactly one assistant-side Turn (the returned text or the
\* fallback text), and awaiting_response is false before the submit and after
\* its completion.
C1_AsClaimed == [][C1_Turns /\ (SubmitStep => ~isTyping)]_vars

\* C1 as amended: every accepted submit appends exactly one user Turn, its
\* completion appends exactly one assistant-side Turn (the returned text or the
\* fallback text), and awaiting_response is false after its completion; it is
\* false before the submit when no earlier request is still in flight.
C1_SubmitGrowsByTwo ==
  [][C1_Turns /\ ((SubmitStep /\ InFlight = {}) => ~isTyping)]_vars

C1_Witness ==
  /\ Len(calls) = 2
  /\ calls[1].status = "resolved"
  /\ calls[2].status = "rejected"
  /\ messages = << AssistantTurn(GreetingOf(widget)),
                   UserTurn(calls[1].prompt), AssistantTurn(calls[1].value),
                   UserTurn(calls[2].prompt), AssistantTurn(FallbackText) >>
  /\ ~isTyping

----------------------------------------------------------------------------
(* C2 *)

\* C2: a submit whose input is empty or whitespace-only changes neither the
\* transcript nor awaiting_response, and issues no request.
C2_BlankSubmitIsNoOp ==
  [][(SubmitCall /\ IsBlank(input)) =>
       UNCHANGED <<messages, isTyping, sent, calls, input>>]_vars

C2_Witness ==
  /\ submitCount = 2
  /\ calls = <<>>
  /\ sent = <<>>
  /\ input = <<" ">>
  /\ Len(messages) = 1
  /\ ~isTyping

----------------------------------------------------------------------------
(* C3 *)

\* C3: a failure of the remote call, of whatever kind, appends one assistant
\* Turn with the fixed fallback text, issues no further request, and leaves
\* the session submittable.
C3_FailureBecomesFallbackTurn ==
  [][\A c \in 1..Len(calls) :
       RejectStep(c) =>
         /\ messages' = Append(messages, AssistantTurn(FallbackText))
         /\ sent' = sent
         /\ Len(calls') = Len(calls)
         /\ \A d \in 1..Len(calls) : d # c => calls'[d] = calls[d]
         /\ ~isTyping']_vars

C3_Witness ==
  /\ Len(calls) = 1
  /\ calls[1].status = "rejected"
  /\ Len(sent) = 1
  /\ messages[Len(messages)] = AssistantTurn(FallbackText)
  /\ ~isTyping

----------------------------------------------------------------------------
(* C4 *)

\* C4: provided every remote call eventually completes or errors, whenever
\* awaiting_response is true it eventually becomes false again.
C4_TypingReleased == isTyping ~> ~isTyping

C4_Witness ==
  /\ Len(calls) = 2
  /\ calls[1].status = "rejected"
  /\ calls[2].status = "resolved"
  /\ ~isTyping

----------------------------------------------------------------------------
(* C5 *)

\* C5: every request is the fixed system instruction as the single prior turn
\* plus the text of the submit that issued it, whatever the transcript was; so
\* submits of the same text issue identical requests.
C5_RequestIsPromptOnly ==
  /\ Len(sent) = Len(calls)
  /\ \A i \in 1..Len(sent) :
       /\ sent[i].history = <<[role |-> "user", text |-> FIXED_PROMPT]>>
       /\ sent[i].message = calls[i].prompt
       /\ UserTurn(sent[i].message) \in { messages[k] : k \in 1..Len(messages) }
  /\ \A i, j \in 1..Len(sent) :
       calls[i].prompt = calls[j].prompt => sent[i] = sent[j]

C5_Witness ==
  /\ Len(sent) = 2
  /\ calls[1].status = "resolved"
  /\ sent[1] = sent[2]
  /\ Len(messages) = 4

----------------------------------------------------------------------------
(* C6 *)

\* C6: in every step the transcript before the step is a prefix of the
\* transcript after it.
C6_AppendOnly == [][IsPrefix(messages, messages')]_vars

C6_Witness ==
  /\ Len(messages) = 5
  /\ messages[2].role = "user"
  /\ messages[3].role = "user"

----------------------------------------------------------------------------
(* C7 *)

\* C7: the first Turn of the transcript is always the assistant greeting, and
\* no request carries the greeting, neither as prior context nor as message.
C7_GreetingFirstNeverSent ==
  /\ Len(messages) >= 1
  /\ messages[1] = AssistantTurn(GreetingOf(widget))
  /\ \A i \in 1..Len(sent) :
       /\ \A h \in 1..Len(sent[i].history) :
            sent[i].history[h].text # GreetingOf(widget)
       /\ sent[i].message # GreetingOf(widget)

C7_Witness ==
  /\ Len(sent) = 2
  /\ Len(messages) = 5
  /\ messages[1] = AssistantTurn(GreetingOf(widget))
  /\ widget = "plain"

----------------------------------------------------------------------------
(* C8 *)

\* C8: with submissions through the form only, at most one request is in
\* flight.
C8_OneInFlight == Cardinality(InFlight) <= 1

C8_Witness ==
  /\ Len(calls) = 2
  /\ InFlight = {2}
  /\ isTyping

----------------------------------------------------------------------------
(* C9 *)

\* C9: when a later utterance is still pending, the completion of the
\* utterance that is playing leaves speaking true; only the last completion
\* sets it to false.
C9_SpeakingUntilLastEnd ==
  [][(isSpeaking /\ Len(synthQueue) >= 2 /\ synthQueue' = Tail(synthQueue))
       => isSpeaking']_vars

----------------------------------------------------------------------------
(* C10 *)

\* C10: after a recognition result event the input field equals the event's
\* transcript, whatever it held before.
C10_ResultReplacesInput ==
  [][\A s \in 1..Len(sessions) :
       ResultStep(s) => input' = Transcript(sessions'[s].results)]_vars

C10_Witness ==
  /\ isListening
  /\ recognitionRef = 1
  /\ sessions[1].results = << [transcript |-> <<"a", "b">>, isFinal |-> FALSE] >>
  /\ input = <<"a", "b">>
  /\ Len(messages) = 1

----------------------------------------------------------------------------
(* C11 *)

\* C11: listening and speaking go from idle to active only on their start
\* operation (a capture is started, a text is handed to the synthesis), and go
\* back to idle on the explicit stop, on the completion of the platform
\* operation (the capture ends, the playback ends) and on its error.
C11_FlagLifecycle ==
  [][/\ (~isListening /\ isListening') => Len(sessions') = Len(sessions) + 1
     /\ (~isSpeaking /\ isSpeaking') => Len(synthQueue') = Len(synthQueue) + 1
     /\ \A s \in 1..Len(sessions) :
          ( /\ s = recognitionRef
            /\ sessions[s].state = "started"
            /\ sessions'[s].state # "started" ) => ~isListening'
     /\ ( /\ synthQueue # <<>>
          /\ synthQueue' \in {Tail(synthQueue), <<>>} ) => ~isSpeaking']_vars

----------------------------------------------------------------------------
(* C12 *)

\* C12: in the voice widget a completed call hands its response text to the
\* synthesis in the step that appends its Turn, and speaking is true after
\* it; a failed call hands nothing to the synthesis.
C12_ResponseSpoken ==
  [][widget = "voice" =>
       \A c \in 1..Len(calls) :
         /\ ResolveStep(c) =>
              /\ messages' = Append(messages, AssistantTurn(calls'[c].value))
              /\ synthQueue' = Append(synthQueue, calls'[c].value)
              /\ isSpeaking'
         /\ RejectStep(c) =>
              /\ synthQueue' = synthQueue
              /\ isSpeaking' = isSpeaking]_vars

\* one call failed and one completed, and only the response is in the queue
C12_Witness ==
  /\ widget = "voice"
  /\ Len(calls) = 2
  /\ calls[1].status = "rejected"
  /\ calls[2].status = "resolved"
  /\ replayCount = 0
  /\ synthQueue = << calls[2].value >>
  /\ isSpeaking
  /\ messages[Len(messages)] = AssistantTurn(calls[2].value)
  /\ messages[Len(messages) - 1] = AssistantTurn(FallbackText)

----------------------------------------------------------------------------
(* C13 *)

\* a step in which a text is handed to the synthesis
SpeakStep == Len(synthQueue') = Len(synthQueue) + 1

\* a step in which a playback ends: an end event, late or not, or a cancel
PlaybackEndStep ==
  \/ synthQueue # <<>> /\ synthQueue' \in {Tail(synthQueue), <<>>}
  \/ staleEnds' = staleEnds - 1

----------------------------------------------------------------------------
(* C14 *)

\* the text of the most recent assistant Turn; the greeting is one
LastAssistantText ==
  LET i == CHOOSE k \in 1..Len(messages) :
             /\ messages[k].role = "assistant"
             /\ \A j \in (k + 1)..Len(messages) : messages[j].role # "assistant"
  IN  messages[i].content

\* a step in which the speaker button started a replay
ReplayStep == replayCount' = replayCount + 1 /\ ~isSpeaking

\* C14: whenever a replay is started, also while a call is in flight and the
\* last Turn is a user Turn, the text handed to the synthesis is the text of
\* the most recent assistant Turn.
C14_ReplaySpeaksLastAssistant ==
  [][ReplayStep => synthQueue' = Append(synthQueue, LastAssistantText)]_vars

----------------------------------------------------------------------------
(* C15 *)

\* C15: a submit of non-empty text made while a call is in flight appends a
\* second user Turn and issues a second request, which joins the calls in
\* flight; the submission is neither queued nor refused.
C15_OverlappingSubmit ==
  [][(SubmitCall /\ ~IsBlank(input) /\ InFlight # {}) =>
       /\ messages' = Append(messages, UserTurn(input))
       /\ Len(sent') = Len(sent) + 1
       /\ sent'[Len(sent')].message = input
       /\ InFlight' = InFlight \cup {Len(calls) + 1}]_vars

C15_Witness ==
  /\ InFlight = {1, 2}
  /\ Len(sent) = 2
  /\ Len(messages) = 3
  /\ messages[2] = UserTurn(sent[1].message)
  /\ messages[3] = UserTurn(sent[2].message)

----------------------------------------------------------------------------
(* C16 *)

IsUserTurn(m) == m.role = "user"

IsAssistantTurn(m) == m.role = "assistant"

\* the text of the assistant-side Turn of a call that has finished
ReplyOf(call) == IF call.status = "resolved" THEN call.value ELSE FallbackText

\* the user Turns are the prompts of the calls, in the order of the submits
UserTurnsInSubmitOrder ==
  SelectSeq(messages, IsUserTurn)
    = [c \in 1..Len(calls) |-> UserTurn(calls[c].prompt)]

\* C16: the user Turns are in the order of the submits; the assistant-side
\* Turn of a call is appended in the step in which that call finishes, and in
\* no other step, so assistant-side Turns are in the order of completion.
C16_OverlapOrder ==
  /\ []UserTurnsInSubmitOrder
  /\ [][/\ \A c \in 1..Len(calls) :
             (ResolveStep(c) \/ RejectStep(c)) =>
               messages' = Append(messages, AssistantTurn(ReplyOf(calls'[c])))
        /\ SelectSeq(messages', IsAssistantTurn)
             # SelectSeq(messages, IsAssistantTurn)
           => Cardinality(Settled') = Cardinality(Settled) + 1]_vars

\* the second call failed before the first one completed
C16_Witness ==
  /\ Len(calls) = 2
  /\ calls[1].status = "resolved"
  /\ calls[2].status = "rejected"
  /\ calls[1].prompt # calls[2].prompt
  /\ Len(messages) = 5
  /\ messages[2] = UserTurn(calls[1].prompt)
  /\ messages[3] = UserTurn(calls[2].prompt)
  /\ messages[4] = AssistantTurn(FallbackText)
  /\ messages[5] = AssistantTurn(calls[1].value)

----------------------------------------------------------------------------
(* C17 *)

\* in every prefix of the transcript the assistant-side Turns after the
\* greeting are no more than the user Turns
RepliesFollowUserTurns ==
  \A k \in 1..Len(messages) :
    Len(SelectSeq(SubSeq(messages, 2, k), IsAssistantTurn))
      <= Len(SelectSeq(SubSeq(messages, 1, k), IsUserTurn))

\* C17: in the state in which a request is issued its user Turn is the last
\* Turn and awaiting_response is true; in the state in which a call's
\* awaiting_response is cleared its assistant-side Turn is the last Turn; and
\* the user Turn of a call is in the transcript before its assistant-side Turn.
C17_StepsOfOneSubmit ==
  /\ []RepliesFollowUserTurns
  /\ [][/\ SubmitStep =>
             /\ Len(sent') = Len(sent) + 1
             /\ messages' = Append(messages, UserTurn(sent'[Len(sent')].message))
             /\ isTyping'
        /\ \A c \in 1..Len(calls) :
             (ResolveStep(c) \/ RejectStep(c)) =>
               /\ \E i \in 1..Len(messages) :
                    messages[i] = UserTurn(calls[c].prompt)
               /\ messages'[Len(messages')] = AssistantTurn(ReplyOf(calls'[c]))
               /\ Len(messages') = Len(messages) + 1
               /\ ~isTyping']_vars

C17_Witness ==
  /\ Len(calls) = 1
  /\ calls[1].status = "resolved"
  /\ ~isTyping
  /\ messages = << AssistantTurn(GreetingOf(widget)),
                   UserTurn(calls[1].prompt),
                   AssistantTurn(calls[1].value) >>

----------------------------------------------------------------------------
(* C18 *)

\* C18: the error event of a capture sets listening to false and leaves no
\* capture running; no capture is started by it, and the transcript,
\* awaiting_response and speaking are as before.
C18_RecognitionErrorStops ==
  [][\A s \in 1..Len(sessions) :
       RecognitionErrorOf(s) =>
         /\ ~isListening'
         /\ sessions'[s].state = "ended"
         /\ \A t \in 1..Len(sessions') : sessions'[t].state # "started"
         /\ Len(sessions') = Len(sessions)
         /\ recognitionRef' = recognitionRef
         /\ UNCHANGED <<messages, isTyping, isSpeaking>>]_vars

\* the only capture has ended and listening is false, while a call is in
\* flight and an utterance is playing
C18_Witness ==
  /\ sessions = << Ended >>
  /\ recognitionRef = 1
  /\ ~isListening
  /\ isTyping
  /\ InFlight # {}
  /\ isSpeaking
  /\ synthQueue # <<>>

----------------------------------------------------------------------------
(* C19 *)

\* a step in which the speaker button called stopSpeaking
StopSpeakingStep == replayCount' = replayCount + 1 /\ isSpeaking

\* C19: after stopSpeaking no utterance is playing or pending and speaking is
\* false, and speaking becomes true again only in a step that hands a text to
\* the synthesis.
C19_StopSpeakingCancels ==
  [][/\ StopSpeakingStep => (synthQueue' = <<>> /\ ~isSpeaking')
     /\ (~isSpeaking /\ isSpeaking') => SpeakStep]_vars

\* a playback was cancelled: its late end event is still to come
C19_Witness ==
  /\ replayCount = 1
  /\ staleEnds = 1
  /\ synthQueue = <<>>
  /\ ~isSpeaking

----------------------------------------------------------------------------
(* C20 *)

\* C20: the transcript, awaiting_response and the requests change only in a
\* step that is a submit or the completion of a call, so no voice operation
\* changes them; and a submit of non-empty text is accepted whatever
\* listening and speaking are.
C20_VoiceLeavesChatAlone ==
  [][/\ (~SubmitCall /\ Settled' = Settled) =>
          UNCHANGED <<messages, isTyping, sent, calls>>
     /\ (SubmitCall /\ ~IsBlank(input)) =>
          /\ SubmitStep
          /\ messages' = Append(messages, UserTurn(input))
          /\ UNCHANGED <<isListening, isSpeaking>>]_vars

\* a dictated text was submitted while the capture was on and the replay of
\* the greeting was playing
C20_Witness ==
  /\ isListening
  /\ recognitionRef = 1
  /\ sessions[1].state = "started"
  /\ isSpeaking
  /\ replayCount = 1
  /\ synthQueue = << GreetingOf(widget) >>
  /\ messages = << AssistantTurn(GreetingOf(widget)), UserTurn(<<"a", "b">>) >>
  /\ InFlight = {1}

----------------------------------------------------------------------------
(* C21 *)

\* a step in which a remote call completed or failed
SettleStep == Cardinality(Settled') = Cardinality(Settled) + 1

\* C21: awaiting_response goes from true to false only in a step in which a
\* remote call completes or fails; typing, a refused submit and the voice
\* operations leave it true, so it stays true for as long as no call returns.
C21_OnlyCompletionClearsTyping ==
  [][(isTyping /\ ~isTyping') => SettleStep]_vars

\* the one call is still in flight after a refused submit of a blank input,
\* a capture that has ended and a replay that was played to its end
C21_Witness ==
  /\ isTyping
  /\ InFlight = {1}
  /\ Len(calls) = 1
  /\ submitCount = 2
  /\ input = <<" ">>
  /\ sessions = << Ended >>
  /\ replayCount = 1
  /\ synthQueue = <<>>

----------------------------------------------------------------------------
(* C22 *)

UserTurnCount == Len(SelectSeq(messages, IsUserTurn))

\* the assistant-side Turns after the greeting
ReplyCount == Len(SelectSeq(Tail(messages), IsAssistantTurn))

\* C22: the requests issued are as many as the user Turns; the transcript has
\* the greeting, the user Turns and one Turn for each call that has finished;
\* the user Turns without a reply are as many as the calls in flight.
C22_Conservation ==
  /\ Len(sent) = UserTurnCount
  /\ Len(messages) = 1 + UserTurnCount + Cardinality(Settled)
  /\ UserTurnCount - ReplyCount = Cardinality(InFlight)

\* two overlapping submits, of which the second has finished
C22_Witness ==
  /\ Len(calls) = 2
  /\ InFlight = {1}
  /\ Len(messages) = 4
  /\ messages[2].role = "user"
  /\ messages[3].role = "user"
  /\ messages[4].role = "assistant"

----------------------------------------------------------------------------
(* C23 *)

\* the Turns alternate, the assistant speaking first
Alternates ==
  \A i \in 1..Len(messages) :
    messages[i].role = IF i % 2 = 1 THEN "assistant" ELSE "user"

\* C23: with submits made through the gated form only, awaiting_response is
\* true exactly when a call is in flight, the Turns alternate starting with
\* the greeting, and the transcript has an even length (ending with a user
\* Turn) exactly when awaiting_response is true.
C23_GatedAlternation ==
  /\ isTyping <=> InFlight # {}
  /\ Alternates
  /\ isTyping => Len(messages) % 2 = 0 /\ messages[Len(messages)].role = "user"
  /\ ~isTyping =>
       Len(messages) % 2 = 1 /\ messages[Len(messages)].role = "assistant"

\* the second submit of the form is waiting for its response
C23_Witness ==
  /\ isTyping
  /\ InFlight = {2}
  /\ Len(messages) = 4
  /\ calls[1].status = "rejected"

----------------------------------------------------------------------------
(* C24 *)

\* C24: an accepted submit empties the input field, and the user Turn it
\* appends and the request it issues both carry the input field's content as
\* it was, untrimmed.
C24_SubmitCopiesInput ==
  [][SubmitStep =>
       /\ input' = <<>>
       /\ messages'[Len(messages')] = [role |-> "user", content |-> input]
       /\ sent'[Len(sent')].message = input
       /\ Len(sent') = Len(sent) + 1]_vars

\* a text with a leading blank was submitted
C24_Witness ==
  /\ Len(calls) = 1
  /\ input = <<>>
  /\ messages[2] = [role |-> "user", content |-> <<" ", "a">>]
  /\ sent[1].message = <<" ", "a">>

----------------------------------------------------------------------------
(* C25 *)

\* C25: speaking is true exactly when an utterance handed to the synthesis is
\* playing or pending.
C25_SpeakingIffPending == isSpeaking <=> synthQueue # <<>>

----------------------------------------------------------------------------
(* C26 *)

\* the first capture is on, and what it has recognised so far was submitted:
\* a text that cannot be typed is the prompt of a call, and no other capture
\* has existed that could have recognised it
SubmittedFromCapture ==
  /\ Len(sessions) = 1
  /\ recognitionRef = 1
  /\ isListening
  /\ sessions[1].state = "started"
  /\ Transcript(sessions[1].results) \notin Typed
  /\ \E c \in 1..Len(calls) :
       calls[c].prompt = Transcript(sessions[1].results)

\* C26: after a text recognised by a capture was submitted while the capture
\* goes on, a later result event of that capture does not put the submitted
\* text back into the input field.
C26_NoSubmittedTextBack ==
  [][(SubmittedFromCapture /\ ResultStep(1)) =>
       ~IsPrefix(Transcript(sessions[1].results), input')]_vars

----------------------------------------------------------------------------
(* C27 *)

\* a step in which a session that is no longer the current one delivers an
\* event, while the capture started after it is on
LateEventStep(s) ==
  /\ s # recognitionRef
  /\ sessions[s].state = "stopped"
  /\ sessions'[s] # sessions[s]
  /\ isListening
  /\ sessions[recognitionRef].state = "started"

\* C27: an event of a session that was stopped, arriving after listening was
\* started again, leaves listening true, leaves the new session running and
\* leaves the input field as it is.
C27_LateEventsIgnored ==
  [][\A s \in 1..Len(sessions) :
       LateEventStep(s) =>
         /\ isListening'
         /\ sessions'[recognitionRef].state = "started"
         /\ input' = input]_vars

----------------------------------------------------------------------------
(* C28 *)
(* The widget without voice support, landing-page.tsx, as a relation between
   two of its states p and q: records of messages, input, isTyping, the
   requests sent and the calls. *)

\* onChange={(e) => setInput(e.target.value)}
PlainOnChange(p, q) == \E v \in Typed : q = [p EXCEPT !.input = v]

\* handleSubmit up to the await of runChat(input)
PlainHandleSubmit(p, q) ==
  IF TrimEnd(TrimStart(p.input)) = <<>>
  THEN q = p
  ELSE q = [messages |-> Append(p.messages,
                                [role |-> "user", content |-> p.input]),
            input    |-> <<>>,
            isTyping |-> TRUE,
            sent     |-> Append(p.sent,
                           [history |-> <<[role |-> "user",
                                           text |-> FIXED_PROMPT]>>,
                            message |-> p.input]),
            calls    |-> Append(p.calls,
                           [prompt |-> p.input, status |-> "pending",
                            value |-> <<>>])]

\* handleSubmit after the await: try, finally
PlainRunChatResolve(p, q) ==
  \E c \in 1..Len(p.calls), text \in Responses :
    /\ p.calls[c].status = "pending"
    /\ q = [p EXCEPT
              !.messages = Append(@, [role |-> "assistant", content |-> text]),
              !.isTyping = FALSE,
              !.calls[c] = [@ EXCEPT !.status = "resolved", !.value = text]]

\* handleSubmit after the await: catch, finally
PlainRunChatReject(p, q) ==
  \E c \in 1..Len(p.calls) :
    /\ p.calls[c].status = "pending"
    /\ q = [p EXCEPT
              !.messages = Append(@, [role |-> "assistant",
                                      content |-> FallbackText]),
              !.isTyping = FALSE,
              !.calls[c] = [@ EXCEPT !.status = "rejected"]]

\* the state of the widget as the widget without voice support has it: the
\* transcript with that widget's greeting, the waiting flag, the requests
PlainView ==
  [messages |-> << [role |-> "assistant", content |-> GreetingOf("plain")] >>
                  \o Tail(messages),
   input    |-> input,
   isTyping |-> isTyping,
   sent     |-> sent,
   calls    |-> calls]

\* C28: every step of the voice widget is, on the transcript up to the
\* greeting, awaiting_response, the requests and the input field, the step
\* the widget without voice support takes on the same event: a submit is its
\* submit, a completion or failure of a call is its completion or failure,
\* typing is its typing, and a voice event that does not write the input
\* field changes none of them.
C28_VoiceRefinesPlain ==
  [][widget = "voice" =>
       /\ SubmitCall => PlainHandleSubmit(PlainView, PlainView')
       /\ \A c \in 1..Len(calls) :
            /\ ResolveStep(c) => PlainRunChatResolve(PlainView, PlainView')
            /\ RejectStep(c) => PlainRunChatReject(PlainView, PlainView')
       /\ (~SubmitCall /\ input' # input /\ sessions' = sessions) =>
            PlainOnChange(PlainView, PlainView')
       /\ (~SubmitCall /\ ~SettleStep /\ input' = input) =>
            PlainView' = PlainView]_vars

\* the voice widget after two submits, one completed and one failed, with a
\* capture and a click on the speaker button in between
C28_Witness ==
  /\ widget = "voice"
  /\ Len(calls) = 2
  /\ calls[1].status = "resolved"
  /\ calls[2].status = "rejected"
  /\ Len(messages) = 5
  /\ ~isTyping
  /\ sessions = << [state |-> "stopped", results |-> <<>>] >>
  /\ replayCount = 1

====
